---- MODULE Spec2Model ----
(***************************************************************************)
(* Model of liferaypedia_openzim_reader: the extraction pipeline           *)
(* iter_zim_entries (zimreader.py), its path classifier and skip policy,   *)
(* and the HtmlInspector operations it calls (htmlinspector.py).           *)
(*                                                                         *)
(* Representation.  A string is a sequence of one-character strings.  The  *)
(* bytes of an item are a sequence of units: a byte [k |-> "byte"] or the  *)
(* ASCII bytes of one markup tag [k |-> "tag"].  Decoded text is a         *)
(* sequence of units: a code point [k |-> "ch"], a markup tag, or the      *)
(* base64 rendering of a byte sequence [k |-> "b64"], which holds no       *)
(* markup since '<' is not in the base64 alphabet.  The markup parser      *)
(* (BeautifulSoup) is an external collaborator: the document tree is read  *)
(* off the tag units in document order.                                    *)
(***************************************************************************)
EXTENDS Integers, Sequences, FiniteSets, TLC

VARIABLES zim, max_objects, entry_id, count, entry, content, entry_type,
          namespace, result, results, pc, attempted, fragment, harvest,
          inspected, arg, ret

vars == <<zim, max_objects, entry_id, count, entry, content, entry_type,
          namespace, result, results, pc, attempted, fragment, harvest,
          inspected, arg, ret>>

\* the locals of iter_zim_entries assigned after the skip checks
locals == <<entry_type, namespace, result>>

\* the argument and the return value of a function called on its own
call == <<arg, ret>>

(***************************************************************************)
(* Bounds                                                                  *)
(***************************************************************************)
MaxTotal == 3
MaxObjects == 3
MaxScan == 6
MaxNodes == 3
MaxLive == 2
MaxPathLen == 4

(***************************************************************************)
(* Strings                                                                 *)
(***************************************************************************)
UpperChars == <<"A", "B", "C", "D", "E", "F", "G", "H", "I", "J", "K", "L", "M",
                "N", "O", "P", "Q", "R", "S", "T", "U", "V", "W", "X", "Y", "Z">>

LowerChars == <<"a", "b", "c", "d", "e", "f", "g", "h", "i", "j", "k", "l", "m",
                "n", "o", "p", "q", "r", "s", "t", "u", "v", "w", "x", "y", "z">>

LowerChar(c) ==
    IF \E i \in 1..26 : UpperChars[i] = c
    THEN LowerChars[CHOOSE i \in 1..26 : UpperChars[i] = c]
    ELSE c

\* str.lower()
Lower(s) == [i \in 1..Len(s) |-> LowerChar(s[i])]

\* str.startswith(p)
StartsWith(s, p) == Len(s) >= Len(p) /\ SubSeq(s, 1, Len(p)) = p

\* c in s
Contains(s, c) == \E i \in 1..Len(s) : s[i] = c

\* s.split(c)[0]
SplitFirst(s, c) ==
    IF Contains(s, c)
    THEN SubSeq(s, 1, (CHOOSE i \in 1..Len(s) :
                          s[i] = c /\ \A j \in 1..(i - 1) : s[j] # c) - 1)
    ELSE s

\* s.split(c)[-1]
SplitLast(s, c) ==
    IF Contains(s, c)
    THEN SubSeq(s, (CHOOSE i \in 1..Len(s) :
                       s[i] = c /\ \A j \in (i + 1)..Len(s) : s[j] # c) + 1, Len(s))
    ELSE s

WhitespaceChars == {" ", "\n", "\t", "\r"}

RECURSIVE LStripStr(_)
LStripStr(s) ==
    IF s # <<>> /\ Head(s) \in WhitespaceChars THEN LStripStr(Tail(s)) ELSE s

RECURSIVE RStripStr(_)
RStripStr(s) ==
    IF s # <<>> /\ s[Len(s)] \in WhitespaceChars
    THEN RStripStr(SubSeq(s, 1, Len(s) - 1))
    ELSE s

\* str.strip()
StripStr(s) == RStripStr(LStripStr(s))

\* x in list
InList(l, x) == \E i \in 1..Len(l) : l[i] = x

Last(s) == s[Len(s)]

Min(a, b) == IF a < b THEN a ELSE b

(***************************************************************************)
(* String literals of the program                                          *)
(***************************************************************************)
Main == <<"m", "a", "i", "n">>
NsA == <<"A">>
NsI == <<"I">>
NsCategory == <<"C", "a", "t", "e", "g", "o", "r", "y">>
NsDiscussion == <<"D", "i", "s", "c", "u", "s", "s", "i", "o", "n">>
NsFile == <<"F", "i", "l", "e">>
NsTemplate == <<"T", "e", "m", "p", "l", "a", "t", "e">>
NsHelp == <<"H", "e", "l", "p">>
NsPortal == <<"P", "o", "r", "t", "a", "l">>
NsBook == <<"B", "o", "o", "k">>
NsMediaWiki == <<"M", "e", "d", "i", "a", "W", "i", "k", "i">>

CategoryPrefix == NsCategory \o <<"/">>

Text == <<"t", "e", "x", "t">>
TextHtml == Text \o <<"/", "h", "t", "m", "l">>
TextPlain == Text \o <<"/", "p", "l", "a", "i", "n">>
ImagePng == <<"i", "m", "a", "g", "e", "/", "p", "n", "g">>
Application == <<"a", "p", "p", "l", "i", "c", "a", "t", "i", "o", "n", "/">>
AppJavascript == Application \o <<"j", "a", "v", "a", "s", "c", "r", "i", "p", "t">>
AppJson == Application \o <<"j", "s", "o", "n">>
TextJavascript == Text \o <<"/", "j", "a", "v", "a", "s", "c", "r", "i", "p", "t">>

Refresh == <<"r", "e", "f", "r", "e", "s", "h">>

ImageExts == {<<"j", "p", "g">>, <<"j", "p", "e", "g">>, <<"p", "n", "g">>,
              <<"g", "i", "f">>, <<"s", "v", "g">>, <<"w", "e", "b", "p">>}
DocumentExts == {<<"p", "d", "f">>, <<"d", "o", "c">>, <<"d", "o", "c", "x">>,
                 <<"t", "x", "t">>, <<"r", "t", "f">>}
AudioExts == {<<"m", "p", "3">>, <<"w", "a", "v">>, <<"o", "g", "g">>,
              <<"f", "l", "a", "c">>, <<"a", "a", "c">>}
VideoExts == {<<"m", "p", "4">>, <<"a", "v", "i">>, <<"m", "o", "v">>,
              <<"w", "m", "v">>, <<"f", "l", "v">>}
ArchiveExts == {<<"z", "i", "p">>, <<"r", "a", "r">>, <<"7", "z">>,
                <<"t", "a", "r">>, <<"g", "z">>}

(***************************************************************************)
(* Path classifier                                                         *)
(***************************************************************************)
\* takes a path without '/' as its own namespace
deduce_namespace_whole(entry_path) ==
    IF StartsWith(entry_path, <<"-", "/">>) \/ StartsWith(entry_path, <<"/">>)
    THEN Main
    ELSE LET namespace_part == SplitFirst(entry_path, "/")
         IN IF namespace_part # <<>> /\ namespace_part # <<"-">>
            THEN namespace_part
            ELSE Main

deduce_namespace(entry_path) ==
    IF StartsWith(entry_path, <<"-", "/">>) \/ StartsWith(entry_path, <<"/">>)
    THEN Main
    ELSE IF Contains(entry_path, "/")
         THEN LET namespace_part == SplitFirst(entry_path, "/")
              IN IF namespace_part # <<>> /\ namespace_part # <<"-">>
                 THEN namespace_part
                 ELSE Main
         ELSE Main

BaseType(ns) ==
    IF ns = Main THEN "page"
    ELSE IF ns = NsA THEN "article"
    ELSE IF ns = NsI THEN "image"
    ELSE IF ns = NsCategory THEN "category"
    ELSE IF ns = NsDiscussion THEN "discussion"
    ELSE IF ns = NsFile THEN "file"
    ELSE IF ns = NsTemplate THEN "template"
    ELSE IF ns = NsHelp THEN "help"
    ELSE IF ns = NsPortal THEN "portal"
    ELSE IF ns = NsBook THEN "book"
    ELSE IF ns = NsMediaWiki THEN "mediawiki"
    ELSE "unknown"

\* compares the extension without lowering it
FileTypeCaseSensitive(entry_path) ==
    LET extension == SplitLast(entry_path, ".")
    IN IF extension \in ImageExts THEN "image"
       ELSE IF extension \in DocumentExts THEN "document"
       ELSE IF extension \in AudioExts THEN "audio"
       ELSE IF extension \in VideoExts THEN "video"
       ELSE IF extension \in ArchiveExts THEN "archive"
       ELSE "file"

FileType(entry_path) ==
    LET extension == Lower(SplitLast(entry_path, "."))
    IN IF extension \in ImageExts THEN "image"
       ELSE IF extension \in DocumentExts THEN "document"
       ELSE IF extension \in AudioExts THEN "audio"
       ELSE IF extension \in VideoExts THEN "video"
       ELSE IF extension \in ArchiveExts THEN "archive"
       ELSE "file"

\* returns <<entry_type, namespace>>
get_entry_type_and_namespace(entry_path) ==
    LET ns == deduce_namespace(entry_path)
    IN <<IF ns = NsFile THEN FileType(entry_path) ELSE BaseType(ns), ns>>

(***************************************************************************)
(* Structural skip policy                                                  *)
(***************************************************************************)
\* the earlier variant that also dropped JSON items
to_skip_json(e) ==
    e.is_redirect \/ e.item.mimetype \in {AppJavascript, AppJson}

\* skips script items only
to_skip_js_only(e) == e.item.mimetype = AppJavascript

to_skip(e) ==
    IF e.is_redirect THEN TRUE
    ELSE IF e.item.mimetype = AppJavascript THEN TRUE
    ELSE FALSE

(***************************************************************************)
(* Content decoder                                                         *)
(***************************************************************************)
ReplacementChar == 65533

IsByte(u) == u.k = "byte"

IsContinuation(u) == IsByte(u) /\ u.v >= 128 /\ u.v <= 191

\* bytes.decode("utf-8", errors="replace"), for bytes whose lead bytes are
\* those of the one- and two-byte forms; the ASCII bytes of a tag decode to
\* the tag
RECURSIVE DecodeUtf8(_)
DecodeUtf8(raw) ==
    IF raw = <<>> THEN <<>>
    ELSE LET u == Head(raw)
         IN IF ~IsByte(u) THEN <<u>> \o DecodeUtf8(Tail(raw))
            ELSE IF u.v < 128
                 THEN <<[k |-> "ch", c |-> u.v]>> \o DecodeUtf8(Tail(raw))
            ELSE IF u.v >= 194 /\ u.v <= 223 /\ Len(raw) >= 2 /\ IsContinuation(raw[2])
                 THEN <<[k |-> "ch", c |-> (u.v - 192) * 64 + (raw[2].v - 128)]>>
                      \o DecodeUtf8(Tail(Tail(raw)))
            ELSE <<[k |-> "ch", c |-> ReplacementChar]>> \o DecodeUtf8(Tail(raw))

\* hands the raw bytes on unencoded
B64Identity(raw) == raw

\* base64.b64encode(raw).decode("ascii"): text over the base64 alphabet,
\* empty for empty input
B64Encode(raw) == IF raw = <<>> THEN <<>> ELSE <<[k |-> "b64", of |-> raw]>>

\* lines 97-100
DecodeContent(item) ==
    IF StartsWith(item.mimetype, Text)
    THEN DecodeUtf8(item.content)
    ELSE B64Encode(item.content)

(***************************************************************************)
(* HtmlInspector                                                           *)
(***************************************************************************)
IsTag(u, name) == u.k = "tag" /\ u.name = name

IsEndTag(u, name) == u.k = "end" /\ u.name = name

\* tag.get(attr, "")
GetAttr(u, attr) == IF attr \in DOMAIN u.attrs THEN u.attrs[attr] ELSE <<>>

WhitespaceCodes == {9, 10, 11, 12, 13, 32}

IsSpace(u) == u.k = "ch" /\ u.c \in WhitespaceCodes

RECURSIVE LStripText(_)
LStripText(t) ==
    IF t # <<>> /\ IsSpace(Head(t)) THEN LStripText(Tail(t)) ELSE t

RECURSIVE RStripText(_)
RStripText(t) ==
    IF t # <<>> /\ IsSpace(t[Len(t)])
    THEN RStripText(SubSeq(t, 1, Len(t) - 1))
    ELSE t

StripText(t) == RStripText(LStripText(t))

\* the units inside an open <main>, up to its end tag or the end of input
RECURSIVE InnerContents(_, _)
InnerContents(t, depth) ==
    IF t = <<>> THEN <<>>
    ELSE IF IsEndTag(Head(t), "main")
         THEN IF depth = 1 THEN <<>>
              ELSE <<Head(t)>> \o InnerContents(Tail(t), depth - 1)
    ELSE IF IsTag(Head(t), "main")
         THEN <<Head(t)>> \o InnerContents(Tail(t), depth + 1)
    ELSE <<Head(t)>> \o InnerContents(Tail(t), depth)

HasMain(t) == \E i \in 1..Len(t) : IsTag(t[i], "main")

FirstMain(t) ==
    CHOOSE i \in 1..Len(t) :
        IsTag(t[i], "main") /\ \A j \in 1..(i - 1) : ~IsTag(t[j], "main")

get_main_content(t) ==
    IF HasMain(t)
    THEN StripText(InnerContents(SubSeq(t, FirstMain(t) + 1, Len(t)), 1))
    ELSE <<>>

RECURSIVE is_redirect_by_meta_tag(_)

\* compares http-equiv without lowering it
is_redirect_case_sensitive(t) ==
    \E i \in 1..Len(t) :
        /\ IsTag(t[i], "meta")
        /\ GetAttr(t[i], "http-equiv") = Refresh
        /\ GetAttr(t[i], "content") # <<>>

\* accepts a refresh meta whatever its content attribute
is_redirect_ignoring_content(t) ==
    \E i \in 1..Len(t) :
        /\ IsTag(t[i], "meta")
        /\ Lower(GetAttr(t[i], "http-equiv")) = Refresh

is_redirect_by_meta_tag(t) ==
    IF t = <<>> THEN FALSE
    ELSE IF /\ IsTag(Head(t), "meta")
            /\ Lower(GetAttr(Head(t), "http-equiv")) = Refresh
            /\ GetAttr(Head(t), "content") # <<>>
         THEN TRUE
         ELSE is_redirect_by_meta_tag(Tail(t))

\* removes every leading '/'
RECURSIVE StripAllLeadingSlashes(_)
StripAllLeadingSlashes(s) ==
    IF StartsWith(s, <<"/">>) THEN StripAllLeadingSlashes(Tail(s)) ELSE s

\* lines 98-100 and 107-109
StripLeadingSlash(s) == IF StartsWith(s, <<"/">>) THEN Tail(s) ELSE s

\* cuts at '#' only
CutFragmentOnly(s) == SplitFirst(s, "#")

\* s.split("#")[0].split("?")[0]
CutFragmentAndQuery(s) == SplitFirst(SplitFirst(s, "#"), "?")

\* appends without the membership test
AppendAlways(l, path) == IF path # <<>> THEN Append(l, path) ELSE l

AppendIfNew(l, path) ==
    IF path # <<>> /\ ~InList(l, path) THEN Append(l, path) ELSE l

\* first loop of extract_category_and_image_paths
RECURSIVE CategoryLoop(_, _)
CategoryLoop(t, category_paths) ==
    IF t = <<>> THEN category_paths
    ELSE IF IsTag(Head(t), "a") /\ "href" \in DOMAIN Head(t).attrs
         THEN LET href == StripLeadingSlash(StripStr(Head(t).attrs["href"]))
              IN IF StartsWith(href, CategoryPrefix)
                 THEN CategoryLoop(Tail(t),
                          AppendIfNew(category_paths, CutFragmentAndQuery(href)))
                 ELSE CategoryLoop(Tail(t), category_paths)
         ELSE CategoryLoop(Tail(t), category_paths)

\* second loop of extract_category_and_image_paths
RECURSIVE ImageLoop(_, _)
ImageLoop(t, image_paths) ==
    IF t = <<>> THEN image_paths
    ELSE IF IsTag(Head(t), "img") /\ "src" \in DOMAIN Head(t).attrs
         THEN LET src == StripLeadingSlash(StripStr(Head(t).attrs["src"]))
              IN ImageLoop(Tail(t), AppendIfNew(image_paths, CutFragmentAndQuery(src)))
         ELSE ImageLoop(Tail(t), image_paths)

\* returns <<category_paths, image_paths>>
extract_category_and_image_paths(t) ==
    <<CategoryLoop(t, <<>>), ImageLoop(t, <<>>)>>

(***************************************************************************)
(* Archives                                                                *)
(***************************************************************************)
Byte(n) == [k |-> "byte", v |-> n]

Ch(n) == [k |-> "ch", c |-> n]

Tag(name, attrs) == [k |-> "tag", name |-> name, attrs |-> attrs]

EndTag(name) == [k |-> "end", name |-> name]

NoAttrs == [a \in {} |-> <<>>]

Href(s) == "href" :> s

Src(s) == "src" :> s

CatC == CategoryPrefix \o <<"C">>

ImgP == <<"I", "/", "p", ".", "p", "n", "g">>

PathArticle == <<"A", "/", "x">>

\* an article: a category link and an image inside <main>, each referenced
\* twice, and a link and an image outside it
ArticleBytes ==
    << Tag("meta", "charset" :> <<"u", "t", "f", "8">>),
       Tag("a", Href(<<"/">> \o CategoryPrefix \o <<"O">>)),
       Tag("main", NoAttrs), Byte(10),
       Tag("img", Src(<<"/">> \o ImgP)),
       Tag("a", Href(<<"/">> \o CatC)),
       Tag("a", Href(CatC \o <<"#", "s">>)),
       Tag("img", Src(ImgP \o <<"?", "w">>)),
       Byte(32), EndTag("main"),
       Tag("img", Src(<<"/", "I", "/", "o">>)) >>

CategoryBytes ==
    << Byte(10), Tag("main", NoAttrs), Tag("a", Href(<<"/">> \o PathArticle)),
       Byte(10), EndTag("main"), Byte(10) >>

\* a page that refreshes to the article, attribute names and value in upper case
SoftRedirectBytes ==
    << Tag("meta", ("http-equiv" :> <<"R", "E", "F", "R", "E", "S", "H">>)
                   @@ ("content" :> <<"0", ";">> \o PathArticle)),
       Tag("main", NoAttrs), Tag("a", Href(PathArticle)), EndTag("main") >>

\* an article without <main>, carrying a refresh meta that has no content
NoMainBytes ==
    << Tag("meta", "http-equiv" :> Refresh),
       Tag("a", Href(<<"/">> \o CatC)), Tag("img", Src(<<"/">> \o ImgP)) >>

Item(mimetype, bytes) ==
    [mimetype |-> mimetype, content |-> bytes, size |-> Len(bytes)]

Entry(path, title, is_redirect, item) ==
    [ok |-> TRUE, path |-> path, title |-> title, is_redirect |-> is_redirect,
     item |-> item]

\* an id that _get_entry_by_id or get_item cannot resolve
NoEntry == [ok |-> FALSE]

EntryPool ==
    { NoEntry,
      Entry(PathArticle, "Sample Article", FALSE, Item(TextHtml, ArticleBytes)),
      Entry(CatC, "Sample Category", FALSE, Item(TextHtml, CategoryBytes)),
      Entry(ImgP, "p.png", FALSE, Item(ImagePng, <<Byte(137), Byte(80)>>)),
      Entry(<<"C", "o", "u", "n", "t", "e", "r">>, "Counter", FALSE,
            Item(TextPlain, <<Byte(65), Byte(195), Byte(169), Byte(255), Byte(195)>>)),
      Entry(<<"-", "/", "R">>, "Redirect Here", TRUE, Item(TextHtml, ArticleBytes)),
      Entry(<<"-", "/", "s", ".", "j", "s">>, "s.js", FALSE,
            Item(AppJavascript, <<Byte(65)>>)),
      Entry(<<"A", "/", "y">>, "Fake Section", FALSE, Item(TextHtml, SoftRedirectBytes)),
      Entry(<<"A", "/", "z">>, "No Main", FALSE, Item(TextHtml, NoMainBytes)),
      Entry(<<"-", "/", "j">>, "j", FALSE, Item(AppJson, <<Byte(123), Byte(125)>>)),
      Entry(<<"-", "/", "t", ".", "j", "s">>, "t.js", FALSE,
            Item(TextJavascript, <<Byte(65)>>)),
      Entry(<<"A", "/", "b">>, "Binary", FALSE, Item(ImagePng, SoftRedirectBytes)) }

Archives ==
    UNION { [1..n -> EntryPool] : n \in 0..MaxTotal }

\* zim.entry_count
total == Len(zim)

\* a limit that ignores max_objects
limit_total == total

\* limit = min(max_objects, total)
limit == Min(max_objects, total)

\* zim._get_entry_by_id(id) followed by entry.get_item(): ids 1..entry_count
\* name the entries of the archive, any other id cannot be resolved
Lookup(id) == IF id \in 1..Len(zim) THEN zim[id] ELSE NoEntry

(***************************************************************************)
(* iter_zim_entries                                                        *)
(***************************************************************************)
Init ==
    /\ inspected = <<>>
    /\ arg = <<>>
    /\ ret = <<>>
    /\ entry_type = ""
    /\ namespace = <<>>
    /\ result = NoAttrs
    /\ zim \in Archives
    /\ max_objects \in 0..MaxObjects
    /\ entry_id = 0
    /\ count = 0
    /\ entry = NoEntry
    /\ content = <<>>
    /\ results = <<>>
    /\ attempted = <<>>
    /\ fragment = <<>>
    /\ harvest = <<>>
    /\ pc = "while"

\* steps over every other raw id
NextIdSkip(id) == Min(id + 2, MaxScan)

\* The raw id after id.  Python integers are unbounded; every id beyond
\* entry_count fails the lookup alike, so MaxScan (kept above entry_count)
\* stands for all ids from MaxScan on.
NextId(id) == Min(id + 1, MaxScan)

\* the ids passed to _get_entry_by_id so far, in call order; the ids that
\* MaxScan stands for are recorded once
Attempt(id) ==
    IF id = MaxScan /\ attempted # <<>> /\ Last(attempted) = MaxScan
    THEN attempted
    ELSE Append(attempted, id)

\* while count < limit: entry_id += 1
LoopEnter ==
    /\ pc = "while"
    /\ count < limit
    /\ entry_id' = NextId(entry_id)
    /\ pc' = "lookup"
    /\ UNCHANGED <<zim, max_objects, count, entry, content, results, attempted,
                   fragment, harvest, locals, inspected, call>>

LoopExit ==
    /\ pc = "while"
    /\ ~(count < limit)
    /\ pc' = "done"
    /\ UNCHANGED <<zim, max_objects, entry_id, count, entry, content, results,
                   attempted, fragment, harvest, locals, inspected, call>>

\* a lookup failure that ends the scan
LookupFailAborts ==
    /\ pc = "lookup"
    /\ ~Lookup(entry_id).ok
    /\ attempted' = Attempt(entry_id)
    /\ pc' = "done"
    /\ UNCHANGED <<zim, max_objects, entry_id, count, entry, content, results,
                   fragment, harvest, locals, inspected, call>>

\* except Exception: print; continue
LookupFail ==
    /\ pc = "lookup"
    /\ ~Lookup(entry_id).ok
    /\ attempted' = Attempt(entry_id)
    /\ pc' = "while"
    /\ UNCHANGED <<zim, max_objects, entry_id, count, entry, content, results,
                   fragment, harvest, locals, inspected, call>>

LookupOk ==
    /\ pc = "lookup"
    /\ Lookup(entry_id).ok
    /\ attempted' = Attempt(entry_id)
    /\ entry' = Lookup(entry_id)
    /\ pc' = "to_skip"
    /\ UNCHANGED <<zim, max_objects, entry_id, count, content, results,
                   fragment, harvest, locals, inspected, call>>

\* if to_skip(entry): print; continue
StructuralSkip ==
    /\ pc = "to_skip"
    /\ to_skip(entry)
    /\ pc' = "while"
    /\ UNCHANGED <<zim, max_objects, entry_id, count, entry, content, results,
                   attempted, fragment, harvest, locals, inspected, call>>

Decode ==
    /\ pc = "to_skip"
    /\ ~to_skip(entry)
    /\ content' = DecodeContent(entry.item)
    /\ pc' = "meta"
    /\ UNCHANGED <<zim, max_objects, entry_id, count, entry, results, attempted,
                   fragment, harvest, locals, inspected, call>>

\* if is_redirect_by_meta_tag(content): print; continue
MetaSkip ==
    /\ pc = "meta"
    /\ is_redirect_by_meta_tag(content)
    /\ inspected' = Append(inspected, content)
    /\ pc' = "while"
    /\ UNCHANGED <<zim, max_objects, entry_id, count, entry, content, results,
                   attempted, fragment, harvest, locals, call>>

\* entry_type, namespace = get_entry_type_and_namespace(entry.path), reached
\* when is_redirect_by_meta_tag(content) is false
Classify ==
    /\ pc = "meta"
    /\ ~is_redirect_by_meta_tag(content)
    /\ entry_type' = get_entry_type_and_namespace(entry.path)[1]
    /\ namespace' = get_entry_type_and_namespace(entry.path)[2]
    /\ inspected' = Append(inspected, content)
    /\ pc' = "main"
    /\ UNCHANGED <<zim, max_objects, entry_id, count, entry, content, result,
                   results, attempted, fragment, harvest, call>>

\* the fragment taken for articles only
MainContentArticleOnly ==
    /\ pc = "main"
    /\ content' = IF entry_type = "article" THEN get_main_content(content) ELSE content
    /\ pc' = "build"
    /\ UNCHANGED <<zim, max_objects, entry_id, count, entry, results, attempted,
                   fragment, harvest, locals, inspected, call>>

\* the fragment taken for category pages only
MainContentCategoryOnly ==
    /\ pc = "main"
    /\ content' = IF entry_type = "category" THEN get_main_content(content) ELSE content
    /\ pc' = "build"
    /\ UNCHANGED <<zim, max_objects, entry_id, count, entry, results, attempted,
                   fragment, harvest, locals, inspected, call>>

\* if entry_type in {'article', 'category'}: content = get_main_content(content)
MainContent ==
    /\ pc = "main"
    /\ content' = IF entry_type \in {"article", "category"}
                  THEN get_main_content(content)
                  ELSE content
    /\ pc' = "build"
    /\ UNCHANGED <<zim, max_objects, entry_id, count, entry, results, attempted,
                   fragment, harvest, locals, inspected, call>>

\* the dict literal of lines 113-123
BaseResult ==
    [id |-> entry_id, path |-> entry.path, title |-> entry.title,
     type |-> entry_type, mime_type |-> entry.item.mimetype,
     is_redirect |-> entry.is_redirect, namespace |-> namespace,
     content |-> content, size_bytes |-> entry.item.size]

\* a record that gives category pages the two lists as well
BuildCategoryAsArticle ==
    /\ pc = "build"
    /\ result' = IF entry_type \in {"article", "category"}
                 THEN BaseResult
                      @@ ("category_paths" :> extract_category_and_image_paths(content)[1])
                      @@ ("image_paths" :> extract_category_and_image_paths(content)[2])
                 ELSE BaseResult
    /\ pc' = "yield"
    /\ UNCHANGED <<zim, max_objects, entry_id, count, entry, content, entry_type,
                   namespace, results, attempted, fragment, harvest, inspected, call>>

\* result = {...}; if entry_type == "article": add category_paths, image_paths
Build ==
    /\ pc = "build"
    /\ result' = IF entry_type = "article"
                 THEN BaseResult
                      @@ ("category_paths" :> extract_category_and_image_paths(content)[1])
                      @@ ("image_paths" :> extract_category_and_image_paths(content)[2])
                 ELSE BaseResult
    /\ pc' = "yield"
    /\ UNCHANGED <<zim, max_objects, entry_id, count, entry, content, entry_type,
                   namespace, results, attempted, fragment, harvest, inspected, call>>

\* yield result; count += 1
Yield ==
    /\ pc = "yield"
    /\ results' = Append(results, result)
    /\ count' = count + 1
    /\ pc' = "while"
    /\ UNCHANGED <<zim, max_objects, entry_id, entry, content, attempted,
                   fragment, harvest, locals, inspected, call>>

Next ==
    \/ LoopEnter
    \/ LoopExit
    \/ LookupFail
    \/ LookupOk
    \/ StructuralSkip
    \/ Decode
    \/ MetaSkip
    \/ Classify
    \/ MainContent
    \/ Build
    \/ Yield

Spec == Init /\ [][Next]_vars

\* the scan over the archives of at most MaxLive entries
InitLive == Init /\ Len(zim) <= MaxLive

\* the loop runs to completion once started: the generator is drained by list()
FairSpec == InitLive /\ [][Next]_vars /\ WF_vars(Next)

TypeOK ==
    /\ pc \in {"while", "lookup", "to_skip", "meta", "main", "build", "yield", "done"}
    /\ entry_id \in 0..MaxScan
    /\ count = Len(results)

(***************************************************************************)
(* Link harvesting on its own: extract_category_and_image_paths applied to *)
(* a fragment drawn from bounded sets                                      *)
(***************************************************************************)
CatD == CategoryPrefix \o <<"D">>

ImgQ == <<"I", "/", "q">>

NodePool ==
    { Tag("a", Href(<<"/">> \o CatC)),
      Tag("a", Href(CatC \o <<"#", "s">>)),
      Tag("a", Href(CatD)),
      Tag("a", Href(<<" ">> \o CatD \o <<"?", "q">>)),
      Tag("a", Href(<<"c", "a", "t", "e", "g", "o", "r", "y", "/", "C">>)),
      Tag("a", NoAttrs),
      Tag("img", Src(<<"/">> \o ImgP)),
      Tag("img", Src(ImgP \o <<"?", "w">>)),
      Tag("img", Src(ImgQ)),
      Tag("img", Src(<<"#", "x">>)),
      Ch(32) }

Fragments == UNION { [1..n -> NodePool] : n \in 0..MaxNodes }

InitHarvest ==
    /\ inspected = <<>>
    /\ arg = <<>>
    /\ ret = <<>>
    /\ entry_type = ""
    /\ namespace = <<>>
    /\ result = NoAttrs
    /\ zim = <<>>
    /\ max_objects = 0
    /\ entry_id = 0
    /\ count = 0
    /\ entry = NoEntry
    /\ content = <<>>
    /\ results = <<>>
    /\ attempted = <<>>
    /\ fragment \in Fragments
    /\ harvest = <<>>
    /\ pc = "harvest"

Harvest ==
    /\ pc = "harvest"
    /\ harvest' = extract_category_and_image_paths(fragment)
    /\ pc' = "harvested"
    /\ UNCHANGED <<zim, max_objects, entry_id, count, entry, content, results,
                   attempted, fragment, locals, inspected, call>>

NextHarvest == Harvest

SpecHarvest == InitHarvest /\ [][NextHarvest]_vars

(***************************************************************************)
(* The classifier called on its own                                        *)
(***************************************************************************)
\* the state of the scan before iter_zim_entries is called
NotScanning ==
    /\ inspected = <<>>
    /\ entry_type = ""
    /\ namespace = <<>>
    /\ result = NoAttrs
    /\ zim = <<>>
    /\ max_objects = 0
    /\ entry_id = 0
    /\ count = 0
    /\ entry = NoEntry
    /\ content = <<>>
    /\ results = <<>>
    /\ attempted = <<>>
    /\ harvest = <<>>

scan == <<zim, max_objects, entry_id, count, entry, content, results,
          attempted, harvest, locals, inspected>>

PathChars == {"-", "/", "A", "."}

\* every path of at most MaxPathLen characters over PathChars
ShortPaths == UNION { [1..n -> PathChars] : n \in 0..MaxPathLen }

Namespaces ==
    { Main, NsA, NsI, NsCategory, NsDiscussion, NsFile, NsTemplate, NsHelp,
      NsPortal, NsBook, NsMediaWiki, <<"-">>, <<"X">>, <<"a">>,
      <<"f", "i", "l", "e">>, <<"F", "I", "L", "E">>,
      <<"c", "a", "t", "e", "g", "o", "r", "y">>, <<"M", "a", "i", "n">> }

Extensions ==
    ImageExts \cup DocumentExts \cup AudioExts \cup VideoExts \cup ArchiveExts
        \cup { <<"P", "N", "G">>, <<"P", "d", "f">>, <<"O", "G", "G">>,
               <<"M", "p", "4">>, <<"Z", "I", "P">>, <<"x", "y", "z">>,
               <<"p", "n", "g", "s">>, <<"h", "t", "m", "l">>, <<>> }

Stems == { <<"c">>, <<"c", ".", "t", "a", "r">>, <<"d", "/", "c">>, <<>> }

\* namespace/stem.extension, namespace/stem, stem.extension and stem
LongPaths ==
    { prefix \o stem \o suffix :
        prefix \in { ns \o <<"/">> : ns \in Namespaces } \cup {<<>>},
        stem \in Stems,
        suffix \in { <<".">> \o e : e \in Extensions } \cup {<<>>} }

\* 'I/cat.mp4' and 'humanities.jpg'
DocumentedPaths ==
    { <<"I", "/", "c", "a", "t", ".", "m", "p", "4">>,
      <<"h", "u", "m", "a", "n", "i", "t", "i", "e", "s", ".", "j", "p", "g">> }

Paths == ShortPaths \cup LongPaths \cup DocumentedPaths

InitPath ==
    /\ NotScanning
    /\ fragment = <<>>
    /\ arg \in Paths
    /\ ret = <<>>
    /\ pc = "path"

CallDeduceNamespace ==
    /\ pc = "path"
    /\ ret' = deduce_namespace(arg)
    /\ pc' = "deduced"
    /\ UNCHANGED <<scan, fragment, arg>>

CallGetEntryTypeAndNamespace ==
    /\ pc = "path"
    /\ ret' = get_entry_type_and_namespace(arg)
    /\ pc' = "classified"
    /\ UNCHANGED <<scan, fragment, arg>>

NextPath == CallDeduceNamespace \/ CallGetEntryTypeAndNamespace

SpecPath == InitPath /\ [][NextPath]_vars

(***************************************************************************)
(* The soft-redirect detector called on its own                            *)
(***************************************************************************)
Meta(http_equiv, meta_content) ==
    Tag("meta", ("http-equiv" :> http_equiv) @@ ("content" :> meta_content))

Delay == <<"0", ";">> \o PathArticle

MetaPool ==
    { Meta(Refresh, Delay),
      Meta(<<"R", "E", "F", "R", "E", "S", "H">>, Delay),
      Meta(<<"R", "e", "f", "r", "e", "s", "h">>, <<"5">>),
      Meta(Refresh, <<>>),
      Tag("meta", "http-equiv" :> Refresh),
      Meta(<<" ">> \o Refresh, Delay),
      Meta(<<"c", "o", "n", "t", "e", "n", "t", "-", "t", "y", "p", "e">>, TextHtml),
      Tag("meta", "content" :> Delay),
      Tag("meta", ("name" :> Refresh) @@ ("content" :> Delay)),
      Tag("a", ("http-equiv" :> Refresh) @@ ("content" :> Delay)),
      Tag("head", NoAttrs),
      EndTag("head"),
      Tag("body", NoAttrs),
      Ch(65) }

MetaDocs == UNION { [1..n -> MetaPool] : n \in 0..MaxNodes }

InitMeta ==
    /\ NotScanning
    /\ fragment \in MetaDocs
    /\ arg = <<>>
    /\ ret = <<>>
    /\ pc = "document"

CallIsRedirectByMetaTag ==
    /\ pc = "document"
    /\ ret' = is_redirect_by_meta_tag(fragment)
    /\ pc' = "inspected"
    /\ UNCHANGED <<scan, fragment, arg>>

NextMeta == CallIsRedirectByMetaTag

SpecMeta == InitMeta /\ [][NextMeta]_vars

(***************************************************************************)
(* The harvester called on single references                               *)
(***************************************************************************)
LinkPrefixes ==
    { <<>>, <<" ">>, <<"/">>, <<"/", "/">>, <<" ", "/">>, <<"/", " ">>,
      <<"\n", "/">> }

LinkBodies ==
    { CatC, CatD, ImgP, CategoryPrefix, <<>>,
      <<"c", "a", "t", "e", "g", "o", "r", "y", "/", "C">>,
      <<"C", "a", "t", "e", "g", "o", "r", "y">>,
      <<"X", "/">> \o CatC }

LinkSuffixes ==
    { <<>>, <<"#", "s">>, <<"?", "q">>, <<"#", "s", "?", "q">>,
      <<"?", "q", "#", "s">>, <<"#">>, <<" ">>, <<"\t", "\n">> }

References ==
    { prefix \o body \o suffix :
        prefix \in LinkPrefixes, body \in LinkBodies, suffix \in LinkSuffixes }

LinkPool ==
    { Tag("a", Href(r)) : r \in References }
        \cup { Tag("img", Src(r)) : r \in References }
        \cup { Tag("a", Src(CatC)), Tag("img", Href(ImgP)) }

InitLink ==
    /\ NotScanning
    /\ fragment \in { <<n>> : n \in LinkPool }
    /\ arg = <<>>
    /\ ret = <<>>
    /\ pc = "harvest"

SpecLink == InitLink /\ [][NextHarvest]_vars

(***************************************************************************)
(* Properties                                                              *)
(***************************************************************************)

\* C1: the id fields of the emitted records are 1, 2, ..., n in emission
\* order, whatever raw entries were skipped before or between them.
Claim_C1 == \A i \in 1..Len(results) : results[i].id = i

\* C2: no raw id greater than the archive's entry_count is passed to the
\* lookup: the current raw id is at most entry_count in every state.
Claim_C2 ==
    /\ entry_id <= total
    /\ \A i \in 1..Len(attempted) : attempted[i] <= total

\* C3: the scan always terminates, also when fewer than
\* min(max_objects, entry_count) entries are acceptable.
Claim_C3 == <>(pc = "done")

\* C4: once the accepted count equals max_objects the loop exits and no
\* further raw id is looked up, so the output never holds more than
\* max_objects records, however many raw ids remain unscanned.
Thm_C4 ==
    /\ [](Len(results) <= max_objects)
    /\ [][count = max_objects =>
              /\ attempted' = attempted
              /\ entry_id' = entry_id
              /\ results' = results
              /\ pc' = "done"]_vars

Wit_C4 ==
    /\ pc = "done"
    /\ count = max_objects
    /\ count > 0
    /\ entry_id < total

\* C5: a lookup failure at raw id k leaves the output sequence and the
\* accepted count unchanged and does not end the scan, and every id
\* attempted after another is that id plus one, so k+1 follows k.
Thm_C5 ==
    /\ [][(pc = "lookup" /\ ~Lookup(entry_id).ok) =>
              /\ results' = results
              /\ count' = count
              /\ entry_id' = entry_id
              /\ pc' = "while"
              /\ count' < limit]_vars
    /\ [][attempted' # attempted =>
              /\ attempted' = Append(attempted, entry_id)
              /\ attempted # <<>> => entry_id = Last(attempted) + 1]_vars

Wit_C5 ==
    /\ Len(attempted) >= 2
    /\ attempted[1] <= total
    /\ ~Lookup(attempted[1]).ok
    /\ attempted[2] = attempted[1] + 1
    /\ count > 0

\* C6: the structural check skips an entry if and only if its is_redirect
\* flag is set or its mimetype is exactly application/javascript, and the
\* check itself changes neither the output nor the counters.
Thm_C6 ==
    [][pc = "to_skip" =>
          /\ (pc' = "while") <=>
                 (entry.is_redirect \/ entry.item.mimetype = AppJavascript)
          /\ (pc' = "meta") <=>
                 ~(entry.is_redirect \/ entry.item.mimetype = AppJavascript)
          /\ UNCHANGED <<results, count, entry_id, entry, zim>>]_vars

Wit_C6 ==
    /\ pc = "meta"
    /\ entry.item.mimetype = AppJson
    /\ \E i \in 1..(entry_id - 1) : Lookup(i).ok /\ Lookup(i).is_redirect
    /\ \E i \in 1..(entry_id - 1) : Lookup(i).ok /\ Lookup(i).item.mimetype = AppJavascript
    /\ results = <<>>

\* a meta element whose http-equiv is refresh in any letter case and whose
\* content attribute is present and not empty
IsRefreshMeta(u) ==
    /\ u.k = "tag"
    /\ u.name = "meta"
    /\ "http-equiv" \in DOMAIN u.attrs
    /\ Lower(u.attrs["http-equiv"]) = Refresh
    /\ "content" \in DOMAIN u.attrs
    /\ u.attrs["content"] # <<>>

\* an entry that passes the structural check and whose decoded text holds a
\* refresh meta
IsSoftRedirect(e) ==
    /\ ~e.is_redirect
    /\ e.item.mimetype # AppJavascript
    /\ LET text == IF StartsWith(e.item.mimetype, Text)
                   THEN DecodeUtf8(e.item.content)
                   ELSE B64Encode(e.item.content)
       IN \E i \in 1..Len(text) : IsRefreshMeta(text[i])

\* C7: an entry that passes the structural check but whose decoded text
\* holds a refresh meta is never emitted and does not raise the count.
Thm_C7 ==
    /\ [](pc \in {"main", "build", "yield"} => ~IsSoftRedirect(entry))
    /\ [][(pc \in {"to_skip", "meta"} /\ IsSoftRedirect(entry)) =>
              /\ results' = results
              /\ count' = count
              /\ pc' \in {"meta", "while"}]_vars

Wit_C7 ==
    /\ pc = "while"
    /\ entry.ok
    /\ IsSoftRedirect(entry)
    /\ attempted # <<>>
    /\ Last(attempted) = entry_id
    /\ Lookup(entry_id) = entry
    /\ count > 0

\* C8: a record carries category_paths and image_paths if and only if its
\* type is article.
Thm_C8 ==
    \A i \in 1..Len(results) :
        /\ ("category_paths" \in DOMAIN results[i]) <=> (results[i].type = "article")
        /\ ("image_paths" \in DOMAIN results[i]) <=> (results[i].type = "article")

Wit_C8 ==
    /\ \E i \in 1..Len(results) : results[i].type = "article"
    /\ \E i \in 1..Len(results) : results[i].type = "category"
    /\ \E i \in 1..Len(results) : results[i].type \notin {"article", "category"}

\* the content the record of entry e is to carry
ExpectedContent(e) ==
    LET decoded == IF StartsWith(e.item.mimetype, Text)
                   THEN DecodeUtf8(e.item.content)
                   ELSE B64Encode(e.item.content)
    IN IF get_entry_type_and_namespace(e.path)[1] \in {"article", "category"}
       THEN IF \E i \in 1..Len(decoded) : IsTag(decoded[i], "main")
            THEN StripText(InnerContents(
                     SubSeq(decoded, FirstMain(decoded) + 1, Len(decoded)), 1))
            ELSE <<>>
       ELSE decoded

\* C9: the content of a record is the trimmed inside of the first <main> of
\* the decoded content (empty without one) for an article or a category,
\* else the lossy UTF-8 decoding for a text mimetype, else the base64
\* encoding of the raw bytes.
Thm_C9 ==
    [][pc = "yield" =>
          LET r == Last(results')
          IN /\ r.content = ExpectedContent(entry)
             /\ r.type \in {"article", "category"} =>
                    /\ r.content # <<>> => ~IsSpace(Head(r.content))
                    /\ r.content # <<>> => ~IsSpace(Last(r.content))
                    /\ \A i \in 1..Len(r.content) : r.content[i].k # "b64"]_vars

Wit_C9 ==
    /\ \E i \in 1..Len(results) :
           /\ results[i].type = "category"
           /\ results[i].content = <<Tag("a", Href(<<"/">> \o PathArticle))>>
    /\ \E i \in 1..Len(results) :
           /\ results[i].type = "page"
           /\ results[i].content = <<Ch(65), Ch(233), Ch(ReplacementChar), Ch(ReplacementChar)>>
    /\ \E i \in 1..Len(results) :
           /\ results[i].type = "image"
           /\ results[i].content = <<[k |-> "b64", of |-> <<Byte(137), Byte(80)>>]>>

NoDuplicates(l) == \A i, j \in 1..Len(l) : l[i] = l[j] => i = j

\* the normalised category references of a fragment, in document order,
\* repeats included
RECURSIVE CategoryCandidates(_)
CategoryCandidates(t) ==
    IF t = <<>> THEN <<>>
    ELSE LET u == Head(t)
             href == IF IsTag(u, "a") /\ "href" \in DOMAIN u.attrs
                     THEN StripLeadingSlash(StripStr(u.attrs["href"]))
                     ELSE <<>>
         IN (IF StartsWith(href, CategoryPrefix)
             THEN <<CutFragmentAndQuery(href)>> ELSE <<>>)
            \o CategoryCandidates(Tail(t))

\* the normalised image references of a fragment, in document order,
\* repeats included
RECURSIVE ImageCandidates(_)
ImageCandidates(t) ==
    IF t = <<>> THEN <<>>
    ELSE LET u == Head(t)
             src == IF IsTag(u, "img") /\ "src" \in DOMAIN u.attrs
                    THEN CutFragmentAndQuery(StripLeadingSlash(StripStr(u.attrs["src"])))
                    ELSE <<>>
         IN (IF src # <<>> THEN <<src>> ELSE <<>>) \o ImageCandidates(Tail(t))

FirstIndex(l, x) == CHOOSE i \in 1..Len(l) : l[i] = x /\ \A j \in 1..(i - 1) : l[j] # x

\* l lists every element of cand once, ordered by first occurrence in cand
FirstSeenOrder(l, cand) ==
    /\ NoDuplicates(l)
    /\ {l[i] : i \in 1..Len(l)} = {cand[i] : i \in 1..Len(cand)}
    /\ \A i, j \in 1..Len(l) :
           i < j => FirstIndex(cand, l[i]) < FirstIndex(cand, l[j])

\* C10: both lists returned by extract_category_and_image_paths are free of
\* duplicates and ordered by the first occurrence of their elements in the
\* document.
Thm_C10 ==
    pc = "harvested" =>
        /\ FirstSeenOrder(harvest[1], CategoryCandidates(fragment))
        /\ FirstSeenOrder(harvest[2], ImageCandidates(fragment))

Wit_C10 ==
    /\ pc = "harvested"
    /\ fragment = << Tag("a", Href(<<"/">> \o CatC)), Tag("a", Href(CatD)),
                     Tag("a", Href(CatC \o <<"#", "s">>)) >>
    /\ harvest[1] = <<CatC, CatD>>

\* the part of p before its first '/', for a p that holds one
BeforeFirstSlash(p) ==
    LET i == CHOOSE j \in 1..Len(p) : p[j] = "/" /\ \A h \in 1..(j - 1) : p[h] # "/"
    IN SubSeq(p, 1, i - 1)

HasSlash(p) == \E i \in 1..Len(p) : p[i] = "/"

\* the namespace a path is documented to have
ExpectedNamespace(p) ==
    IF \/ (Len(p) >= 2 /\ p[1] = "-" /\ p[2] = "/")
       \/ (Len(p) >= 1 /\ p[1] = "/")
       \/ ~HasSlash(p)
       \/ BeforeFirstSlash(p) \in {<<>>, <<"-">>}
    THEN <<"m", "a", "i", "n">>
    ELSE BeforeFirstSlash(p)

\* C11: deduce_namespace is total; it gives 'main' for a path that starts
\* with '-/' or '/', holds no '/', or has nothing or just '-' before its first
\* '/', and the part before the first '/' for any other path.
Thm_C11 ==
    pc = "deduced" =>
        /\ Len(ret) \in 1..Len(arg) \cup {4}
        /\ ret # <<>>
        /\ ret = ExpectedNamespace(arg)

Wit_C11 ==
    /\ pc = "deduced"
    /\ arg = <<"A", ".", "-", "A">>
    /\ ret = Main

\* the type tag of each namespace that has one
NamespaceTypes ==
    [ns \in {Main, NsA, NsI, NsCategory, NsDiscussion, NsFile, NsTemplate,
             NsHelp, NsPortal, NsBook, NsMediaWiki} |->
        IF ns = Main THEN "page"
        ELSE IF ns = NsA THEN "article"
        ELSE IF ns = NsI THEN "image"
        ELSE IF ns = NsCategory THEN "category"
        ELSE IF ns = NsDiscussion THEN "discussion"
        ELSE IF ns = NsFile THEN "file"
        ELSE IF ns = NsTemplate THEN "template"
        ELSE IF ns = NsHelp THEN "help"
        ELSE IF ns = NsPortal THEN "portal"
        ELSE IF ns = NsBook THEN "book"
        ELSE "mediawiki"]

\* the part of p after its last '.', all of p when it holds none
AfterLastDot(p) ==
    IF \E i \in 1..Len(p) : p[i] = "."
    THEN LET i == CHOOSE j \in 1..Len(p) :
                      p[j] = "." /\ \A h \in (j + 1)..Len(p) : p[h] # "."
         IN SubSeq(p, i + 1, Len(p))
    ELSE p

ExtensionTypes ==
    [e \in ImageExts \cup DocumentExts \cup AudioExts \cup VideoExts \cup ArchiveExts |->
        IF e \in ImageExts THEN "image"
        ELSE IF e \in DocumentExts THEN "document"
        ELSE IF e \in AudioExts THEN "audio"
        ELSE IF e \in VideoExts THEN "video"
        ELSE "archive"]

ExpectedType(p) ==
    LET ns == ExpectedNamespace(p)
        extension == Lower(AfterLastDot(p))
    IN IF ns = <<"F", "i", "l", "e">>
       THEN IF extension \in DOMAIN ExtensionTypes
            THEN ExtensionTypes[extension]
            ELSE "file"
       ELSE IF ns \in DOMAIN NamespaceTypes
            THEN NamespaceTypes[ns]
            ELSE "unknown"

\* C12: get_entry_type_and_namespace returns the type and the namespace; the
\* type is the case-sensitive table lookup of the namespace, 'unknown'
\* outside the table, and the lowercased extension after the last '.' decides
\* it only in namespace 'File', which stays 'file' for an unlisted extension;
\* 'I/cat.mp4' is an image and 'humanities.jpg' a page.
Thm_C12 ==
    pc = "classified" =>
        /\ ret = <<ExpectedType(arg), ExpectedNamespace(arg)>>
        /\ ret[2] # <<"F", "i", "l", "e">> =>
               ret[1] = (IF ret[2] \in DOMAIN NamespaceTypes
                         THEN NamespaceTypes[ret[2]] ELSE "unknown")
        /\ arg = <<"I", "/", "c", "a", "t", ".", "m", "p", "4">> =>
               ret = <<"image", <<"I">>>>
        /\ arg = <<"h", "u", "m", "a", "n", "i", "t", "i", "e", "s", ".", "j", "p", "g">> =>
               ret = <<"page", <<"m", "a", "i", "n">>>>

Wit_C12 ==
    /\ pc = "classified"
    /\ arg = <<"F", "i", "l", "e", "/", "c", ".", "t", "a", "r", ".", "P", "N", "G">>
    /\ ret = <<"image", <<"F", "i", "l", "e">>>>

\* C13: is_redirect_by_meta_tag is true exactly when the document holds,
\* anywhere, a meta element whose http-equiv is 'refresh' in any letter case
\* and whose content attribute is present and not empty; a refresh meta
\* without content, a document without meta and the empty document give
\* false.
Thm_C13 ==
    pc = "inspected" =>
        /\ ret = (\E i \in 1..Len(fragment) : IsRefreshMeta(fragment[i]))
        /\ fragment = <<>> => ret = FALSE
        /\ (\A i \in 1..Len(fragment) : ~IsTag(fragment[i], "meta")) => ret = FALSE
        /\ (\A i \in 1..Len(fragment) :
                IsTag(fragment[i], "meta") =>
                    "content" \notin DOMAIN fragment[i].attrs) => ret = FALSE

Wit_C13 ==
    /\ pc = "inspected"
    /\ fragment = << EndTag("head"), Tag("body", NoAttrs),
                     Meta(<<"R", "e", "f", "r", "e", "s", "h">>, <<"5">>) >>
    /\ ret = TRUE

Thm_C15 ==
    /\ [](\A i \in 1..Len(attempted) : attempted[i] = i)
    /\ [](\A i, j \in 1..Len(results) : i < j => results[i].id < results[j].id)
    /\ [][attempted' # attempted =>
              /\ Len(attempted') = Len(attempted) + 1
              /\ \A i \in 1..Len(attempted) : attempted[i] < Last(attempted')]_vars
    /\ [][results' # results =>
              /\ results' = Append(results, Last(results'))
              /\ Last(results').id = Last(attempted)]_vars

Wit_C15 ==
    /\ pc = "done"
    /\ Len(attempted) = 3
    /\ Len(results) = 2
    /\ results[1].id = 1
    /\ results[2].id = 3
    /\ Lookup(2).ok

\* s without its leading and trailing whitespace
Trimmed(s) ==
    LET inked == {i \in 1..Len(s) : s[i] \notin WhitespaceChars}
    IN IF inked = {} THEN <<>>
       ELSE SubSeq(s, CHOOSE i \in inked : \A j \in inked : i <= j,
                      CHOOSE i \in inked : \A j \in inked : i >= j)

\* s without one leading '/'
DropOneSlash(s) == IF Len(s) >= 1 /\ s[1] = "/" THEN SubSeq(s, 2, Len(s)) ELSE s

\* s up to its first '#' or '?'
UpToMark(s) ==
    LET marks == {i \in 1..Len(s) : s[i] \in {"#", "?"}}
    IN IF marks = {} THEN s
       ELSE SubSeq(s, 1, (CHOOSE i \in marks : \A j \in marks : i <= j) - 1)

HasPrefix(s, p) == Len(s) >= Len(p) /\ SubSeq(s, 1, Len(p)) = p

Elements(l) == {l[i] : i \in 1..Len(l)}

\* the href values of the anchors of fragment t
Hrefs(t) ==
    {t[i].attrs["href"] : i \in {j \in 1..Len(t) : IsTag(t[j], "a") /\ "href" \in DOMAIN t[j].attrs}}

\* the src values of the images of fragment t
Srcs(t) ==
    {t[i].attrs["src"] : i \in {j \in 1..Len(t) : IsTag(t[j], "img") /\ "src" \in DOMAIN t[j].attrs}}

\* C16: an href is trimmed and loses at most one leading '/'; it is kept only
\* if what remains starts with 'Category/', and the kept value is cut at its
\* first '#' or '?': every element of category_paths starts with 'Category/'
\* and holds neither '#' nor '?'.
Thm_C16 ==
    pc = "harvested" =>
        /\ Elements(harvest[1]) =
               { UpToMark(DropOneSlash(Trimmed(h))) :
                   h \in {g \in Hrefs(fragment) :
                            HasPrefix(DropOneSlash(Trimmed(g)), <<"C", "a", "t", "e", "g", "o", "r", "y", "/">>)} }
        /\ \A i \in 1..Len(harvest[1]) :
               /\ HasPrefix(harvest[1][i], <<"C", "a", "t", "e", "g", "o", "r", "y", "/">>)
               /\ \A j \in 1..Len(harvest[1][i]) : harvest[1][i][j] \notin {"#", "?"}

Wit_C16 ==
    /\ pc = "harvested"
    /\ fragment = <<Tag("a", Href(<<" ", "/">> \o CatC \o <<"?", "q", "#", "s">>))>>
    /\ harvest[1] = <<CatC>>

\* C17: a src is trimmed, loses at most one leading '/' and is cut at its
\* first '#' or '?'; the result is kept unless it is empty or already listed,
\* whatever its prefix: every element of image_paths is non-empty and holds
\* neither '#' nor '?'.
Thm_C17 ==
    pc = "harvested" =>
        /\ Elements(harvest[2]) =
               { UpToMark(DropOneSlash(Trimmed(g))) : g \in Srcs(fragment) } \ {<<>>}
        /\ \A i \in 1..Len(harvest[2]) :
               /\ harvest[2][i] # <<>>
               /\ \A j \in 1..Len(harvest[2][i]) : harvest[2][i][j] \notin {"#", "?"}
               /\ \A j \in 1..Len(harvest[2]) : harvest[2][j] = harvest[2][i] => j = i

Wit_C17 ==
    /\ pc = "harvested"
    /\ fragment = <<Tag("img", Src(<<"/", "/">> \o CatC \o <<"?", "q", "#", "s">>))>>
    /\ harvest[2] = <<<<"/">> \o CatC>>

\* the decoded page the record r was made from
PageOf(r) ==
    LET item == zim[r.id].item
    IN IF HasPrefix(item.mimetype, <<"t", "e", "x", "t">>)
       THEN DecodeUtf8(item.content)
       ELSE B64Encode(item.content)

MainStarts(t) == {i \in 1..Len(t) : t[i].k = "tag" /\ t[i].name = "main"}

\* the elements of page t between its first <main> and the </main> after it
InsideFirstMain(t) ==
    IF MainStarts(t) = {} THEN <<>>
    ELSE LET open == CHOOSE i \in MainStarts(t) : \A j \in MainStarts(t) : i <= j
             closes == {i \in (open + 1)..Len(t) : t[i].k = "end" /\ t[i].name = "main"}
             close == IF closes = {} THEN Len(t) + 1
                      ELSE CHOOSE i \in closes : \A j \in closes : i <= j
         IN SubSeq(t, open + 1, close - 1)

\* C18: the two lists of an article record are harvested from the main
\* fragment held in its content field, not from the raw page: no anchor or
\* img outside the first <main> contributes a path, and an article whose
\* page has no <main> gets two empty lists.
Thm_C18 ==
    \A i \in 1..Len(results) :
        results[i].type = "article" =>
            LET r == results[i]
                inside == InsideFirstMain(PageOf(r))
            IN /\ <<r.category_paths, r.image_paths>> =
                      extract_category_and_image_paths(r.content)
               /\ Elements(r.category_paths) \subseteq
                      {UpToMark(DropOneSlash(Trimmed(h))) : h \in Hrefs(inside)}
               /\ Elements(r.image_paths) \subseteq
                      {UpToMark(DropOneSlash(Trimmed(g))) : g \in Srcs(inside)}
               /\ MainStarts(PageOf(r)) = {} =>
                      r.category_paths = <<>> /\ r.image_paths = <<>>

Wit_C18 ==
    /\ Len(results) = 2
    /\ results[1].path = PathArticle
    /\ results[1].category_paths = <<CatC>>
    /\ results[1].image_paths = <<ImgP>>
    /\ Hrefs(PageOf(results[1])) \ Hrefs(InsideFirstMain(PageOf(results[1]))) # {}
    /\ Srcs(PageOf(results[1])) \ Srcs(InsideFirstMain(PageOf(results[1]))) # {}
    /\ results[2].path = <<"A", "/", "z">>
    /\ Hrefs(PageOf(results[2])) # {}
    /\ results[2].category_paths = <<>>
    /\ results[2].image_paths = <<>>

\* the container redirects and script items
Structural(e) ==
    e.is_redirect \/ e.item.mimetype = <<"a", "p", "p", "l", "i", "c", "a", "t", "i", "o", "n", "/", "j", "a", "v", "a", "s", "c", "r", "i", "p", "t">>

\* C19: every emitted record has is_redirect false and a mime_type other
\* than application/javascript; an entry for which to_skip is true is never
\* emitted and never raises the accepted count, whatever its content.
Thm_C19 ==
    /\ [](\A i \in 1..Len(results) :
              /\ results[i].is_redirect = FALSE
              /\ results[i].mime_type # AppJavascript
              /\ ~Structural(zim[results[i].id]))
    /\ [](count = Len(results))
    /\ [][count' # count => ~Structural(entry) /\ ~to_skip(entry)]_vars
    /\ [][(pc = "to_skip" /\ to_skip(entry)) =>
              results' = results /\ count' = count /\ pc' = "while"]_vars

Wit_C19 ==
    /\ pc = "done"
    /\ Len(zim) = 3
    /\ zim[1].ok
    /\ zim[1].is_redirect
    /\ zim[1].item.content = ArticleBytes
    /\ zim[2].ok
    /\ zim[2].item.mimetype = AppJavascript
    /\ Len(results) = 1
    /\ results[1].id = 3
    /\ count = 1

====
